---- MODULE Spec2Model ----
(***************************************************************************)
(* Book Hive (src/app.py): the relational store and the request handlers   *)
(* that read and write it.  Every handler is one atomic step: it opens a   *)
(* connection, runs its statements in one sqlite transaction and commits,  *)
(* or an exception sends it to its except/finally block.                   *)
(*                                                                         *)
(* Abstractions: timestamps are a presence flag (return_date is NULL or    *)
(* "now"); the free-text columns of a book (title, author, category,       *)
(* publisher, book_condition) are kept only as "were they all given" in    *)
(* the submitted form, since no handler branches on their content; prices  *)
(* are whole numbers.                                                      *)
(***************************************************************************)
EXTENDS Integers, FiniteSets, Sequences, TLC

\* ---------------------------------------------------------------- bounds
\* Highest book id the books table ever hands out (AUTOINCREMENT).
MaxBooks == 3
\* Highest borrow_requests id (and so borrowed_books id) ever handed out.
MaxRequests == 2
\* Highest orders id (and so order_items id) ever handed out.
MaxOrders == 2
\* Highest users id ever handed out.
MaxUsers == 3
\* Longest run of handler calls explored.
MaxSteps == 4

BookIds == 1..MaxBooks
RequestIds == 1..MaxRequests
BorrowIds == 1..MaxRequests
OrderIds == 1..MaxOrders
UserIds == 1..MaxUsers

\* ------------------------------------------------------------ vocabulary
NULL == "NULL"
NOW == "now"

\* book_status values the forms and handlers use.
AvailableStatuses == {"Available", "On Shelves"}
BookStatuses == {"Available", "On Shelves", "Borrowed", "Sold"}

\* request.form['price'] as typed: empty, not a number, negative, or a number.
PriceInputs == {"", "abc", "-1", "0", "5"}
\* request.form['book_status'] as typed.
StatusInputs == {""} \cup BookStatuses

\* float(price): the number (ok), or ValueError (not ok).
ParseFloat(s) ==
    CASE s = "0" -> [ok |-> TRUE, value |-> 0]
      [] s = "5" -> [ok |-> TRUE, value |-> 5]
      [] s = "-1" -> [ok |-> TRUE, value |-> -1]
      [] OTHER -> [ok |-> FALSE, value |-> 0]

\* username / email / password strings typed into the register and login forms.
NameInputs == {"", "admin", "reader"}
EmailInputs == {"", "admin@bookhive.com", "reader@bookhive.com"}
PasswordInputs == {"", "adminpass", "pw"}

\* generate_password_hash / check_password_hash: a salted hash that matches
\* exactly the password it was made from.
GeneratePasswordHash(p) == <<"hash", p>>
CheckPasswordHash(h, p) == h = <<"hash", p>>

\* ----------------------------------------------------------------- state
VARIABLES
    users,            \* users table: id -> row
    books,            \* books table: id -> row
    borrow_requests,  \* borrow_requests table: id -> row
    borrowed_books,   \* borrowed_books table: id -> row
    orders,           \* orders table: id -> row
    order_items,      \* order_items table: id -> row
    payments,         \* payments table: id -> row (no handler inserts into it)
    seq,              \* sqlite_sequence: table name -> last id handed out
    last,             \* the handler that ran last, its arguments and its outcome
    steps,            \* handler calls so far
    inflight,         \* handler calls that have done their reads and not yet their writes
    connections       \* connections opened by get_db_connection and not closed

vars == <<users, books, borrow_requests, borrowed_books, orders, order_items,
          payments, seq, last, steps, inflight, connections>>

\* The store as one value: what a connection reads and a transaction writes.
Store ==
    [users |-> users, books |-> books, borrow_requests |-> borrow_requests,
     borrowed_books |-> borrowed_books, orders |-> orders,
     order_items |-> order_items, payments |-> payments, seq |-> seq]

\* conn.commit(): the transaction's store becomes the store.
Commit(db) ==
    /\ users' = db.users
    /\ books' = db.books
    /\ borrow_requests' = db.borrow_requests
    /\ borrowed_books' = db.borrowed_books
    /\ orders' = db.orders
    /\ order_items' = db.order_items
    /\ payments' = db.payments
    /\ seq' = db.seq

\* Mutant of Rollback: the statements that ran before the exception stay.
RollbackKeepsWrites(pre, partial) == partial

\* conn.rollback() (or conn.close() with the transaction uncommitted): the
\* statements already run in the transaction (partial) are discarded.
Rollback(pre, partial) == pre

\* INSERT into a table with an INTEGER PRIMARY KEY AUTOINCREMENT id.
NextId(db, table) == db.seq[table] + 1
Insert(db, table, row) ==
    LET id == NextId(db, table)
    IN [db EXCEPT ![table] = [i \in DOMAIN db[table] \cup {id} |->
                                 IF i = id THEN row ELSE db[table][i]],
                  !.seq[table] = id]

\* DELETE FROM table WHERE keep is false.
DeleteWhere(db, table, Gone(_)) ==
    [db EXCEPT ![table] = [i \in {j \in DOMAIN db[table] : ~Gone(j)} |-> db[table][i]]]

\* A handler's outcome for the page: what it did and what it flashed.
Outcome(op, user, id, result) == [op |-> op, user |-> user, id |-> id, result |-> result]

\* init_db: the schema, the default admin and librarian, the sample books
\* (one for sale and one to borrow stand for the two lists).
InitUsers ==
    (1 :> [username |-> "admin", email |-> "admin@bookhive.com",
           password |-> GeneratePasswordHash("adminpass"),
           is_admin |-> TRUE, is_librarian |-> FALSE, is_approved |-> TRUE])
    @@
    (2 :> [username |-> "librarian", email |-> "librarian@bookhive.com",
           password |-> GeneratePasswordHash("libpass"),
           is_admin |-> FALSE, is_librarian |-> TRUE, is_approved |-> TRUE])

InitBooks ==
    (1 :> [price |-> 5, book_status |-> "Available", is_available |-> TRUE])
    @@
    (2 :> [price |-> 0, book_status |-> "Available", is_available |-> TRUE])

Init ==
    /\ users = InitUsers
    /\ books = InitBooks
    /\ borrow_requests = <<>>
    /\ borrowed_books = <<>>
    /\ orders = <<>>
    /\ order_items = <<>>
    /\ payments = <<>>
    /\ seq = [users |-> 2, books |-> 2, borrow_requests |-> 0,
              borrowed_books |-> 0, orders |-> 0, order_items |-> 0, payments |-> 0]
    /\ last = Outcome("init_db", 0, 0, "ok")
    /\ steps = 0
    /\ inflight = {}
    /\ connections = 0

\* ------------------------------------------------------------- sessions
\* login_required: the session holds a user id.  login puts it there only for
\* an approved user, and before_request drops it once the user row is gone.
LoggedIn == {u \in DOMAIN users : users[u].is_approved}
\* librarian_or_admin_required / admin_required: before_request copies the
\* role flags of the session's user row into the session on every request.
Staff == {u \in LoggedIn : users[u].is_admin \/ users[u].is_librarian}
Admins == {u \in LoggedIn : users[u].is_admin}

\* ---------------------------------------------------------- transactions
\* A transaction of statements: after[k] is the store once statement k has
\* run.  fail = 0: every statement and the commit succeed.  fail = k > 0:
\* statement k raises (k = Len(after) + 1: the commit raises) and the handler's
\* except/finally block rolls back what ran before it.
Transaction(pre, after, fail) ==
    IF fail = 0 THEN after[Len(after)]
    ELSE Rollback(pre, IF fail = 1 THEN pre ELSE after[fail - 1])

FailPoints(n) == 0..(n + 1)

\* One more handler call.
Call == steps < MaxSteps /\ steps' = steps + 1

\* One more handler call that runs from its first read to its return with no
\* other request in between, and closes the connection it opened.
Step == Call /\ UNCHANGED <<inflight, connections>>

\* The handler returns before it writes anything.
Returns(outcome) ==
    /\ last' = outcome
    /\ UNCHANGED <<users, books, borrow_requests, borrowed_books, orders,
                   order_items, payments, seq>>

\* The handler runs its statements and commits, or a statement raises.
Runs(after, op, user, id, result) ==
    \E fail \in FailPoints(Len(after)) :
        /\ Commit(Transaction(Store, after, fail))
        /\ last' = Outcome(op, user, id, IF fail = 0 THEN result ELSE "storage_error")

\* ------------------------------------------------------- catalog manager
\* The submitted book form: text_ok says title, author, category, publisher
\* and book_condition are all non-empty.
ValidBookForms == [text_ok : {TRUE}, price : {"0", "5"}, book_status : BookStatuses]
InvalidBookForms ==
    {[text_ok |-> FALSE, price |-> "0", book_status |-> "Available"]}
    \cup [text_ok : {TRUE}, price : {"", "abc", "-1"}, book_status : {"Available"}]
    \cup [text_ok : {TRUE}, price : {"5"}, book_status : {""}]
BookForms == ValidBookForms \cup InvalidBookForms

\* Mutant of DeriveIsAvailable: 'On Shelves' is left out of the list.
DeriveFromAvailableOnly(book_status) == book_status = "Available"

\* is_available = 1 if book_status in ['Available', 'On Shelves'] else 0
DeriveIsAvailable(book_status) == book_status \in AvailableStatuses

\* not all([title, author, category, publisher, price, book_condition, book_status])
FormIncomplete(form) == ~form.text_ok \/ form.price = "" \/ form.book_status = ""

\* Mutant of PriceCheck: the sign of the price is not looked at.
PriceCheckNumberOnly(form) ==
    IF ~ParseFloat(form.price).ok THEN "invalid_price" ELSE "ok"

\* The try block around float(price): "ok", or the message flashed.
PriceCheck(form) ==
    LET p == ParseFloat(form.price)
    IN IF ~p.ok THEN "invalid_price"
       ELSE IF p.value < 0 THEN "negative_price"
       ELSE "ok"

\* The columns the form writes.
BookRow(form) ==
    [price |-> ParseFloat(form.price).value,
     book_status |-> form.book_status,
     is_available |-> DeriveIsAvailable(form.book_status)]

\* add_book (POST)
AddBook(form) ==
    /\ Step
    /\ Staff # {}
    /\ seq["books"] < MaxBooks
    /\ IF FormIncomplete(form)
       THEN Returns(Outcome("add_book", 0, 0, "fields_required"))
       ELSE IF PriceCheck(form) # "ok"
       THEN Returns(Outcome("add_book", 0, 0, PriceCheck(form)))
       ELSE Runs(<<Insert(Store, "books", BookRow(form))>>,
                 "add_book", 0, NextId(Store, "books"), "ok")

\* Mutant of UpdateBookRow: the new price is also written to the book's order
\* items.
UpdateBookRowAndItems(db, book_id, form) ==
    [db EXCEPT !.books[book_id] = BookRow(form),
               !.order_items = [i \in DOMAIN db.order_items |->
                   IF db.order_items[i].book_id = book_id
                   THEN [db.order_items[i] EXCEPT
                            !.price_at_purchase = ParseFloat(form.price).value]
                   ELSE db.order_items[i]]]

\* UPDATE books SET ..., price = ?, book_status = ?, is_available = ? WHERE id = ?
UpdateBookRow(db, book_id, form) ==
    [db EXCEPT !.books[book_id] = BookRow(form)]

\* edit_book (POST)
EditBook(book_id, form) ==
    /\ Step
    /\ Staff # {}
    /\ IF book_id \notin DOMAIN books
       THEN Returns(Outcome("edit_book", 0, book_id, "not_found"))
       ELSE IF FormIncomplete(form)
       THEN Returns(Outcome("edit_book", 0, book_id, "fields_required"))
       ELSE IF PriceCheck(form) # "ok"
       THEN Returns(Outcome("edit_book", 0, book_id, PriceCheck(form)))
       ELSE Runs(<<UpdateBookRow(Store, book_id, form)>>,
                 "edit_book", 0, book_id, "ok")

\* Mutant of DeleteBookCascade: only the book row is deleted.
DeleteBookRowOnly(db, book_id) ==
    LET db4 == DeleteWhere(db, "books", LAMBDA i : i = book_id)
    IN <<db, db, db, db4>>

\* The four DELETE statements of delete_book, in order.
DeleteBookCascade(db, book_id) ==
    LET db1 == DeleteWhere(db, "borrowed_books",
                           LAMBDA i : db.borrowed_books[i].book_id = book_id)
        db2 == DeleteWhere(db1, "borrow_requests",
                           LAMBDA i : db.borrow_requests[i].book_id = book_id)
        db3 == DeleteWhere(db2, "order_items",
                           LAMBDA i : db.order_items[i].book_id = book_id)
        db4 == DeleteWhere(db3, "books", LAMBDA i : i = book_id)
    IN <<db1, db2, db3, db4>>

\* delete_book
DeleteBook(book_id) ==
    /\ Step
    /\ Staff # {}
    /\ Runs(DeleteBookCascade(Store, book_id), "delete_book", 0, book_id, "ok")

\* donate_book (POST): a second-hand book, free to borrow, on the shelves.
DonatedRow == [price |-> 0, book_status |-> "On Shelves", is_available |-> TRUE]

DonateBook(user_id, text_ok) ==
    /\ Step
    /\ user_id \in LoggedIn
    /\ seq["books"] < MaxBooks
    /\ IF ~text_ok
       THEN Returns(Outcome("donate_book", user_id, 0, "fields_required"))
       ELSE Runs(<<Insert(Store, "books", DonatedRow)>>,
                 "donate_book", user_id, NextId(Store, "books"), "ok")

\* books / books_for_sale: the two catalogue queries.
BorrowCatalog(db) ==
    {b \in DOMAIN db.books :
        db.books[b].price = 0 /\ db.books[b].book_status \in AvailableStatuses}

\* Mutant of SaleCatalog: the query has no price condition.
SaleCatalogAnyPrice(db) ==
    {b \in DOMAIN db.books : db.books[b].book_status \in AvailableStatuses}

SaleCatalog(db) ==
    {b \in DOMAIN db.books :
        db.books[b].price > 0 /\ db.books[b].book_status \in AvailableStatuses}

\* books: the page of books to borrow.  Its outcome keeps the rows fetched.
Books ==
    /\ Step
    /\ Returns(Outcome("books", 0, 0, "ok") @@ [books_list |-> BorrowCatalog(Store)])

\* books_for_sale: the page of books to buy.
BooksForSale ==
    /\ Step
    /\ Returns(Outcome("books_for_sale", 0, 0, "ok")
                @@ [books_list |-> SaleCatalog(Store)])

\* ------------------------------------------------ acquisition state machine
\* Mutant of BorrowableBook: the query has no price condition.
BorrowableAtAnyPrice(db, book_id) ==
    /\ book_id \in DOMAIN db.books
    /\ db.books[book_id].book_status \in AvailableStatuses

\* SELECT * FROM books WHERE id = ? AND price = 0 AND book_status IN (...)
BorrowableBook(db, book_id) ==
    /\ book_id \in DOMAIN db.books
    /\ db.books[book_id].price = 0
    /\ db.books[book_id].book_status \in AvailableStatuses

\* Mutant of ExistingRequest: the query looks for an Approved request.
ExistingApprovedRequest(db, user_id, book_id) ==
    \E r \in DOMAIN db.borrow_requests :
        /\ db.borrow_requests[r].user_id = user_id
        /\ db.borrow_requests[r].book_id = book_id
        /\ db.borrow_requests[r].status = "Approved"

\* SELECT * FROM borrow_requests WHERE user_id = ? AND book_id = ? AND status = 'Pending'
ExistingRequest(db, user_id, book_id) ==
    \E r \in DOMAIN db.borrow_requests :
        /\ db.borrow_requests[r].user_id = user_id
        /\ db.borrow_requests[r].book_id = book_id
        /\ db.borrow_requests[r].status = "Pending"

\* Mutant of ExistingBorrow: the query looks for a Returned record.
ExistingReturnedBorrow(db, user_id, book_id) ==
    \E r \in DOMAIN db.borrowed_books :
        /\ db.borrowed_books[r].user_id = user_id
        /\ db.borrowed_books[r].book_id = book_id
        /\ db.borrowed_books[r].status = "Returned"

\* SELECT * FROM borrowed_books WHERE user_id = ? AND book_id = ? AND status = 'Borrowed'
ExistingBorrow(db, user_id, book_id) ==
    \E r \in DOMAIN db.borrowed_books :
        /\ db.borrowed_books[r].user_id = user_id
        /\ db.borrowed_books[r].book_id = book_id
        /\ db.borrowed_books[r].status = "Borrowed"

\* borrow_book: the borrow request of the session's user for a book.
BorrowBook(user_id, book_id) ==
    /\ Step
    /\ user_id \in LoggedIn
    /\ IF ~BorrowableBook(Store, book_id)
       THEN Returns(Outcome("borrow_book", user_id, book_id, "not_available"))
       ELSE IF ExistingRequest(Store, user_id, book_id)
       THEN Returns(Outcome("borrow_book", user_id, book_id, "duplicate_request"))
       ELSE IF ExistingBorrow(Store, user_id, book_id)
       THEN Returns(Outcome("borrow_book", user_id, book_id, "already_borrowed"))
       ELSE /\ seq["borrow_requests"] < MaxRequests
            /\ Runs(<<Insert(Store, "borrow_requests",
                             [user_id |-> user_id, book_id |-> book_id,
                              status |-> "Pending"])>>,
                    "borrow_book", user_id, book_id, "ok")

\* Mutant of PurchasableBook: the query has no price condition.
PurchasableAtAnyPrice(db, book_id) ==
    /\ book_id \in DOMAIN db.books
    /\ db.books[book_id].book_status \in AvailableStatuses

\* SELECT * FROM books WHERE id = ? AND price > 0 AND book_status IN (...)
PurchasableBook(db, book_id) ==
    /\ book_id \in DOMAIN db.books
    /\ db.books[book_id].price > 0
    /\ db.books[book_id].book_status \in AvailableStatuses

\* UPDATE books SET book_status = ?, is_available = ? WHERE id = ?
SetBookStatus(db, book_id, book_status, is_available) ==
    IF book_id \in DOMAIN db.books
    THEN [db EXCEPT !.books[book_id].book_status = book_status,
                    !.books[book_id].is_available = is_available]
    ELSE db

\* Mutant of PurchaseWrites: the UPDATE of the book is missing.
PurchaseWritesWithoutSold(db, user_id, book_id) ==
    LET book == db.books[book_id]
        db1 == Insert(db, "orders",
                      [user_id |-> user_id, total_amount |-> book.price,
                       status |-> "Completed"])
        db2 == Insert(db1, "order_items",
                      [order_id |-> NextId(db, "orders"), book_id |-> book_id,
                       quantity |-> 1, price_at_purchase |-> book.price])
    IN <<db1, db2, db2>>

\* The three statements of purchase_book, in order.
PurchaseWrites(db, user_id, book_id) ==
    LET book == db.books[book_id]
        db1 == Insert(db, "orders",
                      [user_id |-> user_id, total_amount |-> book.price,
                       status |-> "Completed"])
        order_id == NextId(db, "orders")
        db2 == Insert(db1, "order_items",
                      [order_id |-> order_id, book_id |-> book_id, quantity |-> 1,
                       price_at_purchase |-> book.price])
        db3 == SetBookStatus(db2, book_id, "Sold", FALSE)
    IN <<db1, db2, db3>>

\* purchase_book
PurchaseBook(user_id, book_id) ==
    /\ Step
    /\ user_id \in LoggedIn
    /\ IF ~PurchasableBook(Store, book_id)
       THEN Returns(Outcome("purchase_book", user_id, book_id, "not_available"))
       ELSE /\ seq["orders"] < MaxOrders
            /\ Runs(PurchaseWrites(Store, user_id, book_id),
                    "purchase_book", user_id, book_id, "ok")

\* Mutant of OwnBorrowRecord: the query does not look at user_id.
AnyBorrowRecord(db, borrow_id, user_id) ==
    /\ borrow_id \in DOMAIN db.borrowed_books
    /\ db.borrowed_books[borrow_id].status = "Borrowed"

\* SELECT * FROM borrowed_books WHERE id = ? AND user_id = ? AND status = 'Borrowed'
OwnBorrowRecord(db, borrow_id, user_id) ==
    /\ borrow_id \in DOMAIN db.borrowed_books
    /\ db.borrowed_books[borrow_id].user_id = user_id
    /\ db.borrowed_books[borrow_id].status = "Borrowed"

\* The two statements of return_book, in order.
ReturnWrites(db, borrow_id) ==
    LET book_id == db.borrowed_books[borrow_id].book_id
        db1 == [db EXCEPT !.borrowed_books[borrow_id].status = "Returned",
                          !.borrowed_books[borrow_id].return_date = NOW]
        db2 == SetBookStatus(db1, book_id, "On Shelves", TRUE)
    IN <<db1, db2>>

\* return_book
ReturnBook(user_id, borrow_id) ==
    /\ Step
    /\ user_id \in LoggedIn
    /\ IF ~OwnBorrowRecord(Store, borrow_id, user_id)
       THEN Returns(Outcome("return_book", user_id, borrow_id, "not_found"))
       ELSE Runs(ReturnWrites(Store, borrow_id),
                 "return_book", user_id, borrow_id, "ok")

\* Mutant of PendingRequest: the query does not look at the status.
AnyRequest(db, request_id) == request_id \in DOMAIN db.borrow_requests

\* SELECT * FROM borrow_requests WHERE id = ? AND status = 'Pending'
PendingRequest(db, request_id) ==
    /\ request_id \in DOMAIN db.borrow_requests
    /\ db.borrow_requests[request_id].status = "Pending"

\* Mutant of SetRequestStatus: the statement also puts the request's book back
\* on the shelves.
SetRequestStatusAndShelve(db, request_id, status) ==
    SetBookStatus([db EXCEPT !.borrow_requests[request_id].status = status],
                  db.borrow_requests[request_id].book_id, "On Shelves", TRUE)

\* UPDATE borrow_requests SET status = ? WHERE id = ?
SetRequestStatus(db, request_id, status) ==
    [db EXCEPT !.borrow_requests[request_id].status = status]

\* Mutant of BookStillAvailable: only the book's existence is re-checked.
BookStillExists(db, book_id) == book_id \in DOMAIN db.books

\* book_info and book_info['book_status'] in ['Available', 'On Shelves']
BookStillAvailable(db, book_id) ==
    /\ book_id \in DOMAIN db.books
    /\ db.books[book_id].book_status \in AvailableStatuses

\* The three statements of approve_borrow_request on an available book, in order.
ApproveWrites(db, request_id) ==
    LET req == db.borrow_requests[request_id]
        db1 == SetBookStatus(db, req.book_id, "Borrowed", FALSE)
        db2 == Insert(db1, "borrowed_books",
                      [user_id |-> req.user_id, book_id |-> req.book_id,
                       return_date |-> NULL, status |-> "Borrowed"])
        db3 == SetRequestStatus(db2, request_id, "Approved")
    IN <<db1, db2, db3>>

\* Mutant of UnavailableWrites: the request is approved all the same.
UnavailableApproves(db, request_id) == <<SetRequestStatus(db, request_id, "Approved")>>

\* The statement of approve_borrow_request on a book that is no longer available.
UnavailableWrites(db, request_id) == <<SetRequestStatus(db, request_id, "Rejected")>>

\* approve_borrow_request.  On a book that is gone, the message of the
\* unavailable branch reads book_info["title"] of None: a TypeError, caught by
\* the except block before the request is touched.
ApproveBorrowRequest(request_id) ==
    /\ Step
    /\ Staff # {}
    /\ IF ~PendingRequest(Store, request_id)
       THEN Returns(Outcome("approve_borrow_request", 0, request_id, "not_found"))
       ELSE IF borrow_requests[request_id].book_id \notin DOMAIN books
       THEN Returns(Outcome("approve_borrow_request", 0, request_id, "storage_error"))
       ELSE IF ~BookStillAvailable(Store, borrow_requests[request_id].book_id)
       THEN Runs(UnavailableWrites(Store, request_id),
                 "approve_borrow_request", 0, request_id, "book_unavailable")
       ELSE Runs(ApproveWrites(Store, request_id),
                 "approve_borrow_request", 0, request_id, "ok")

\* reject_borrow_request
RejectBorrowRequest(request_id) ==
    /\ Step
    /\ Staff # {}
    /\ IF ~PendingRequest(Store, request_id)
       THEN Returns(Outcome("reject_borrow_request", 0, request_id, "not_found"))
       ELSE Runs(<<SetRequestStatus(Store, request_id, "Rejected")>>,
                 "reject_borrow_request", 0, request_id, "ok")

\* ------------------------------------------------- interleaved requests
\* The server runs requests in threads, each on its own connection.  A
\* handler's SELECTs run outside any transaction; its writes run in one
\* transaction that sqlite serialises against the other connections.  A
\* handler call is then two steps: its reads, and later its writes with what
\* it read.  No handler of the specification below edits or deletes a book or
\* a request, so a row read earlier has the columns the store has now except
\* for the statuses the calls were split to observe.
ReadDone(op, user, id, proceed) ==
    [call |-> steps + 1, op |-> op, user |-> user, id |-> id, proceed |-> proceed]

\* The reads are done and the connection stays open for the writes.
Reads(call) ==
    /\ inflight' = inflight \cup {call}
    /\ connections' = connections + 1
    /\ Returns(Outcome(call.op, call.user, call.id, "reading"))

\* The call runs its writes and closes its connection.
Resumes(call, op) ==
    /\ call \in inflight
    /\ call.op = op
    /\ inflight' = inflight \ {call}
    /\ connections' = connections - 1
    /\ steps' = steps

\* purchase_book up to the fetch of the book.
PurchaseBookReads(user_id, book_id) ==
    /\ Call
    /\ user_id \in LoggedIn
    /\ IF ~PurchasableBook(Store, book_id)
       THEN /\ Returns(Outcome("purchase_book", user_id, book_id, "not_available"))
            /\ UNCHANGED <<inflight, connections>>
       ELSE Reads(ReadDone("purchase_book", user_id, book_id, TRUE))

\* purchase_book from its try block on, for the call numbered n.
PurchaseBookWrites(n) ==
    \E call \in inflight :
        /\ call.call = n
        /\ Resumes(call, "purchase_book")
        /\ seq["orders"] < MaxOrders
        /\ Runs(PurchaseWrites(Store, call.user, call.id),
                "purchase_book", call.user, call.id, "ok")

\* approve_borrow_request up to the fetch of book_info.
ApproveBorrowRequestReads(request_id) ==
    /\ Call
    /\ Staff # {}
    /\ IF ~PendingRequest(Store, request_id)
       THEN /\ Returns(Outcome("approve_borrow_request", 0, request_id, "not_found"))
            /\ UNCHANGED <<inflight, connections>>
       ELSE IF borrow_requests[request_id].book_id \notin DOMAIN books
       THEN /\ Returns(Outcome("approve_borrow_request", 0, request_id, "storage_error"))
            /\ UNCHANGED <<inflight, connections>>
       ELSE Reads(ReadDone("approve_borrow_request", 0, request_id,
                           BookStillAvailable(Store, borrow_requests[request_id].book_id)))

\* approve_borrow_request from the test of book_info on, for the call
\* numbered n.
ApproveBorrowRequestWrites(n) ==
    \E call \in inflight :
        /\ call.call = n
        /\ Resumes(call, "approve_borrow_request")
        /\ IF call.proceed
           THEN Runs(ApproveWrites(Store, call.id),
                     "approve_borrow_request", 0, call.id, "ok")
           ELSE Runs(UnavailableWrites(Store, call.id),
                     "approve_borrow_request", 0, call.id, "book_unavailable")

\* ----------------------------------------------------------- connections
\* The handlers that open a connection.
RequestHandlers ==
    {"register", "login", "books", "books_for_sale", "manage_books", "add_book",
     "edit_book", "delete_book", "borrow_book", "purchase_book", "return_book",
     "donate_book", "dashboard", "manage_users", "approve_user", "delete_user",
     "manage_borrow_requests", "approve_borrow_request", "reject_borrow_request"}

\* The handlers whose first statement on the connection is already inside a
\* try block whose finally closes the connection.  The others run their first
\* SELECT between get_db_connection() and the try block (or have no try
\* block), with conn.close() only on the lines after it.
ClosesInFinally ==
    {"register", "add_book", "delete_book", "donate_book", "dashboard",
     "approve_user", "delete_user"}

\* A handler call whose first statement on the connection raises (the
\* database is locked, an I/O error): nothing is written, and the connection
\* is closed only where a finally block does it.
FirstStatementRaises(op) ==
    /\ Call
    /\ inflight' = inflight
    /\ connections' = (IF op \in ClosesInFinally THEN connections ELSE connections + 1)
    /\ Returns(Outcome(op, 0, 0, "storage_error"))

\* --------------------------------------------------------- account manager
\* The submitted registration form.
RegisterForms ==
    [username : NameInputs, email : EmailInputs,
     password : {"pw"}, confirm_password : {"pw", "adminpass"}]
    \cup [username : {"reader"}, email : {"reader@bookhive.com"},
          password : {""}, confirm_password : {""}]

\* Mutant of EmailTaken: the email column has no UNIQUE constraint.
EmailNeverTaken(db, email) == FALSE

\* The UNIQUE constraints of users.username and users.email.
UsernameTaken(db, username) == \E u \in DOMAIN db.users : db.users[u].username = username
EmailTaken(db, email) == \E u \in DOMAIN db.users : db.users[u].email = email

\* The row register inserts.
NewUserRow(form) ==
    [username |-> form.username, email |-> form.email,
     password |-> GeneratePasswordHash(form.password),
     is_admin |-> FALSE, is_librarian |-> FALSE, is_approved |-> FALSE]

\* register (POST).  An exception other than IntegrityError is not caught:
\* finally closes the connection and nothing is committed.
Register(form) ==
    /\ Step
    /\ IF form.username = "" \/ form.email = "" \/ form.password = ""
          \/ form.confirm_password = ""
       THEN Returns(Outcome("register", 0, 0, "fields_required"))
       ELSE IF form.password # form.confirm_password
       THEN Returns(Outcome("register", 0, 0, "password_mismatch"))
       ELSE IF UsernameTaken(Store, form.username) \/ EmailTaken(Store, form.email)
       THEN Returns(Outcome("register", 0, 0, "duplicate"))
       ELSE /\ seq["users"] < MaxUsers
            /\ Runs(<<Insert(Store, "users", NewUserRow(form))>>,
                    "register", 0, NextId(Store, "users"), "ok")

\* SELECT * FROM users WHERE username = ? OR email = ?  (the rows fetchone may
\* return: the query has no ORDER BY)
LoginCandidates(db, identifier) ==
    {u \in DOMAIN db.users :
        db.users[u].username = identifier \/ db.users[u].email = identifier}

\* Mutant of LoginResult: the password is compared before is_approved is read.
LoginPasswordFirst(db, user_id, password) ==
    IF ~CheckPasswordHash(db.users[user_id].password, password) THEN "invalid_credentials"
    ELSE IF ~db.users[user_id].is_approved THEN "not_approved"
    ELSE "ok"

\* login (POST) once a row is fetched: the session it opens, or the message.
LoginResult(db, user_id, password) ==
    IF ~db.users[user_id].is_approved THEN "not_approved"
    ELSE IF CheckPasswordHash(db.users[user_id].password, password) THEN "ok"
    ELSE "invalid_credentials"

\* login (POST).  Its outcome also keeps the password that was typed.
Login(identifier, password) ==
    /\ Step
    /\ IF LoginCandidates(Store, identifier) = {}
       THEN Returns(Outcome("login", 0, 0, "invalid_credentials")
                    @@ [password |-> password])
       ELSE \E u \in LoginCandidates(Store, identifier) :
               Returns(Outcome("login", u, 0, LoginResult(Store, u, password))
                       @@ [password |-> password])

\* UPDATE users SET is_approved = 1 WHERE id = ?
SetApproved(db, user_id) ==
    IF user_id \in DOMAIN db.users
    THEN [db EXCEPT !.users[user_id].is_approved = TRUE]
    ELSE db

\* approve_user
ApproveUser(actor, user_id) ==
    /\ Step
    /\ actor \in Admins
    /\ Runs(<<SetApproved(Store, user_id)>>, "approve_user", actor, user_id, "ok")

\* Mutant of DeleteUserCascade: only the user row is deleted.
DeleteUserRowOnly(db, user_id) ==
    LET db6 == DeleteWhere(db, "users", LAMBDA i : i = user_id)
    IN <<db, db, db, db, db, db6>>

\* Mutant of DeleteUserCascade: the loop over the user's orders is missing.
DeleteUserKeepsItems(db, user_id) ==
    LET db1 == DeleteWhere(db, "borrowed_books",
                           LAMBDA i : db.borrowed_books[i].user_id = user_id)
        db2 == DeleteWhere(db1, "payments",
                           LAMBDA i : db.payments[i].user_id = user_id)
        db3 == DeleteWhere(db2, "borrow_requests",
                           LAMBDA i : db.borrow_requests[i].user_id = user_id)
        db5 == DeleteWhere(db3, "orders", LAMBDA i : db.orders[i].user_id = user_id)
        db6 == DeleteWhere(db5, "users", LAMBDA i : i = user_id)
    IN <<db1, db2, db3, db3, db5, db6>>

\* The DELETE statements of delete_user, in order (the loop over the user's
\* orders is one step).
DeleteUserCascade(db, user_id) ==
    LET order_ids == {o \in DOMAIN db.orders : db.orders[o].user_id = user_id}
        db1 == DeleteWhere(db, "borrowed_books",
                           LAMBDA i : db.borrowed_books[i].user_id = user_id)
        db2 == DeleteWhere(db1, "payments",
                           LAMBDA i : db.payments[i].user_id = user_id)
        db3 == DeleteWhere(db2, "borrow_requests",
                           LAMBDA i : db.borrow_requests[i].user_id = user_id)
        db4 == DeleteWhere(db3, "order_items",
                           LAMBDA i : db.order_items[i].order_id \in order_ids)
        db5 == DeleteWhere(db4, "orders", LAMBDA i : i \in order_ids)
        db6 == DeleteWhere(db5, "users", LAMBDA i : i = user_id)
    IN <<db1, db2, db3, db4, db5, db6>>

\* Mutant of ProtectedAccount: only is_admin is looked at.
ProtectedAdminOnly(db, user_id) ==
    /\ user_id \in DOMAIN db.users
    /\ db.users[user_id].is_admin

\* target_user and (is_admin or is_librarian)
ProtectedAccount(db, user_id) ==
    /\ user_id \in DOMAIN db.users
    /\ db.users[user_id].is_admin \/ db.users[user_id].is_librarian

\* delete_user
DeleteUser(actor, user_id) ==
    /\ Step
    /\ actor \in Admins
    /\ IF user_id = actor
       THEN Returns(Outcome("delete_user", actor, user_id, "self_delete"))
       ELSE IF ProtectedAccount(Store, user_id)
       THEN Returns(Outcome("delete_user", actor, user_id, "protected"))
       ELSE Runs(DeleteUserCascade(Store, user_id),
                 "delete_user", actor, user_id, "ok")

\* ---------------------------------------------------------- specification
\* The acquisition state machine and the catalogue edits that move a book
\* between its states, run by the two accounts init_db creates.
Next ==
    \/ \E b \in BookIds, f \in BookForms : EditBook(b, f)
    \/ \E b \in BookIds : DeleteBook(b)
    \/ \E u \in UserIds, b \in BookIds : BorrowBook(u, b)
    \/ \E u \in UserIds, b \in BookIds : PurchaseBook(u, b)
    \/ \E u \in UserIds, r \in BorrowIds : ReturnBook(u, r)
    \/ \E r \in RequestIds : ApproveBorrowRequest(r)
    \/ \E r \in RequestIds : RejectBorrowRequest(r)

Spec == Init /\ [][Next]_vars

\* The same handlers, from the store as it is once the admin has asked for the
\* free book (borrow_book) and the request has been approved
\* (approve_borrow_request); calls are counted from there.
InitOnLoan ==
    /\ users = InitUsers
    /\ books = [InitBooks EXCEPT ![2].book_status = "Borrowed", ![2].is_available = FALSE]
    /\ borrow_requests = <<[user_id |-> 1, book_id |-> 2, status |-> "Approved"]>>
    /\ borrowed_books = <<[user_id |-> 1, book_id |-> 2, return_date |-> NULL,
                           status |-> "Borrowed"]>>
    /\ orders = <<>>
    /\ order_items = <<>>
    /\ payments = <<>>
    /\ seq = [users |-> 2, books |-> 2, borrow_requests |-> 1,
              borrowed_books |-> 1, orders |-> 0, order_items |-> 0, payments |-> 0]
    /\ last = Outcome("approve_borrow_request", 0, 1, "ok")
    /\ steps = 0
    /\ inflight = {}
    /\ connections = 0

SpecOnLoan == InitOnLoan /\ [][Next]_vars

\* Every handler that writes a books row, with the librarian as the reader.
Reader == 2
NextCatalog ==
    \/ \E f \in BookForms : AddBook(f)
    \/ \E b \in BookIds, f \in BookForms : EditBook(b, f)
    \/ \E t \in BOOLEAN : DonateBook(Reader, t)
    \/ \E b \in BookIds : BorrowBook(Reader, b)
    \/ \E b \in BookIds : PurchaseBook(Reader, b)
    \/ \E r \in BorrowIds : ReturnBook(Reader, r)
    \/ \E r \in RequestIds : ApproveBorrowRequest(r)

SpecCatalog == Init /\ [][NextCatalog]_vars

\* The two catalogue pages over the books the catalogue handlers write.
NextListing ==
    \/ \E f \in BookForms : AddBook(f)
    \/ \E b \in BookIds, f \in BookForms : EditBook(b, f)
    \/ \E t \in BOOLEAN : DonateBook(Reader, t)
    \/ Books
    \/ BooksForSale

SpecListing == Init /\ [][NextListing]_vars

\* Purchases and approvals whose reads and writes interleave with those of
\* other requests.
NextInterleaved ==
    \/ \E u \in UserIds, b \in BookIds : BorrowBook(u, b)
    \/ \E u \in UserIds, b \in BookIds : PurchaseBookReads(u, b)
    \/ \E n \in 1..MaxSteps : PurchaseBookWrites(n)
    \/ \E r \in RequestIds : ApproveBorrowRequestReads(r)
    \/ \E n \in 1..MaxSteps : ApproveBorrowRequestWrites(n)

SpecInterleaved == Init /\ [][NextInterleaved]_vars

\* Handler calls on every exit path: success, early return, a failing write
\* (the fail points of Runs) and a failing first statement.
NextConnections ==
    \/ \E op \in RequestHandlers : FirstStatementRaises(op)
    \/ Books
    \/ \E u \in UserIds, b \in BookIds : BorrowBook(u, b)
    \/ \E u \in UserIds, b \in BookIds : PurchaseBook(u, b)
    \/ \E r \in RequestIds : ApproveBorrowRequest(r)
    \/ \E a \in UserIds, u \in UserIds : DeleteUser(a, u)

SpecConnections == Init /\ [][NextConnections]_vars

\* The handlers that create rows referring to users and books, and the two
\* that delete users and books.
NextReferences ==
    \/ \E f \in RegisterForms : Register(f)
    \/ \E a \in UserIds, u \in UserIds : ApproveUser(a, u)
    \/ \E a \in UserIds, u \in UserIds : DeleteUser(a, u)
    \/ \E b \in BookIds : DeleteBook(b)
    \/ \E u \in UserIds, b \in BookIds : BorrowBook(u, b)
    \/ \E u \in UserIds, b \in BookIds : PurchaseBook(u, b)
    \/ \E r \in RequestIds : ApproveBorrowRequest(r)

SpecReferences == Init /\ [][NextReferences]_vars

\* The account manager, with the borrowing and buying a registered reader can do.
NextAccounts ==
    \/ \E f \in RegisterForms : Register(f)
    \/ \E i \in NameInputs \cup EmailInputs, p \in PasswordInputs : Login(i, p)
    \/ \E a \in UserIds, u \in UserIds : ApproveUser(a, u)
    \/ \E a \in UserIds, u \in UserIds : DeleteUser(a, u)
    \/ \E u \in UserIds, b \in BookIds : BorrowBook(u, b)
    \/ \E u \in UserIds, b \in BookIds : PurchaseBook(u, b)
    \/ \E r \in RequestIds : ApproveBorrowRequest(r)

SpecAccounts == Init /\ [][NextAccounts]_vars

\* register takes username and email as typed: neither is checked for its
\* form, so a username may be spelled like an email address and an email like
\* a username.
RegisterFormsAnySpelling ==
    [username : (NameInputs \cup EmailInputs) \ {""},
     email : (NameInputs \cup EmailInputs) \ {""},
     password : {"pw"}, confirm_password : {"pw"}]

\* Registration, approval and login.
NextLogin ==
    \/ \E f \in RegisterFormsAnySpelling : Register(f)
    \/ \E i \in NameInputs \cup EmailInputs, p \in PasswordInputs : Login(i, p)
    \/ \E a \in UserIds, u \in UserIds : ApproveUser(a, u)

SpecLogin == Init /\ [][NextLogin]_vars

\* ================================================================= claims
\* Vocabulary of the claims, kept apart from the handlers' own queries.
OnShelf == {"Available", "On Shelves"}
Added(old, new) == DOMAIN new \ DOMAIN old
KeptRows(old, new) == \A i \in DOMAIN old : i \in DOMAIN new /\ new[i] = old[i]
IsPending(r) == r \in DOMAIN borrow_requests /\ borrow_requests[r].status = "Pending"
BookOf(r) == borrow_requests[r].book_id
UserOf(r) == borrow_requests[r].user_id
Approving(r) == last'.op = "approve_borrow_request" /\ last'.id = r

\* C1: approving a Pending request for a book that is Available or On Shelves
\* either makes the book Borrowed and unavailable, adds exactly one Borrowed
\* row for the request's user and book and makes the request Approved, or (a
\* write failed) leaves books, borrowed_books and borrow_requests as they were.
C1_ApproveAllOrNothing ==
    [][\A r \in RequestIds :
        (Approving(r) /\ IsPending(r) /\ BookOf(r) \in DOMAIN books
            /\ books[BookOf(r)].book_status \in OnShelf)
        => \/ /\ last'.result = "ok"
              /\ books'[BookOf(r)].book_status = "Borrowed"
              /\ ~books'[BookOf(r)].is_available
              /\ Cardinality(Added(borrowed_books, borrowed_books')) = 1
              /\ \A n \in Added(borrowed_books, borrowed_books') :
                    /\ borrowed_books'[n].user_id = UserOf(r)
                    /\ borrowed_books'[n].book_id = BookOf(r)
                    /\ borrowed_books'[n].status = "Borrowed"
              /\ KeptRows(borrowed_books, borrowed_books')
              /\ borrow_requests'[r].status = "Approved"
           \/ /\ last'.result = "storage_error"
              /\ books' = books
              /\ borrowed_books' = borrowed_books
              /\ borrow_requests' = borrow_requests]_vars

C1_Approved ==
    /\ last.op = "approve_borrow_request"
    /\ last.result = "ok"
    /\ borrow_requests[last.id].status = "Approved"
    /\ books[borrow_requests[last.id].book_id].book_status = "Borrowed"

\* C2: approving a Pending request whose book is no longer Available or On
\* Shelves never makes the request Approved, creates no borrowed_books row and
\* leaves the books table alone; unless the store fails, the request becomes
\* Rejected.
C2_UnavailableIsRejected ==
    [][\A r \in RequestIds :
        (Approving(r) /\ IsPending(r) /\ BookOf(r) \in DOMAIN books
            /\ books[BookOf(r)].book_status \notin OnShelf)
        => /\ borrow_requests'[r].status # "Approved"
           /\ borrowed_books' = borrowed_books
           /\ books' = books
           /\ last'.result \in {"book_unavailable", "storage_error"}
           /\ last'.result = "book_unavailable" => borrow_requests'[r].status = "Rejected"
           /\ last'.result = "storage_error" => borrow_requests' = borrow_requests]_vars

C2_Rejected ==
    /\ last.op = "approve_borrow_request"
    /\ last.result = "book_unavailable"
    /\ borrow_requests[last.id].status = "Rejected"
    /\ books[borrow_requests[last.id].book_id].book_status \in {"Borrowed", "Sold"}

\* C3: no user ever has two Pending requests for the same book, and a borrow
\* request by a user who has a Pending request for the book inserts no row and
\* fails: as a duplicate when the book can still be borrowed.
OnePendingPerPair ==
    \A r1, r2 \in DOMAIN borrow_requests :
        (/\ borrow_requests[r1].status = "Pending"
         /\ borrow_requests[r2].status = "Pending"
         /\ borrow_requests[r1].user_id = borrow_requests[r2].user_id
         /\ borrow_requests[r1].book_id = borrow_requests[r2].book_id)
        => r1 = r2

HasPending(u, b) ==
    \E r \in DOMAIN borrow_requests :
        IsPending(r) /\ UserOf(r) = u /\ BookOf(r) = b

C3_OnePendingRequest ==
    /\ []OnePendingPerPair
    /\ [][(last'.op = "borrow_book" /\ HasPending(last'.user, last'.id))
          => /\ borrow_requests' = borrow_requests
             /\ last'.result \in {"duplicate_request", "not_available"}
             /\ (/\ last'.id \in DOMAIN books
                 /\ books[last'.id].price = 0
                 /\ books[last'.id].book_status \in OnShelf)
                => last'.result = "duplicate_request"]_vars

C3_DuplicateRefused ==
    /\ last.op = "borrow_book"
    /\ last.result = "duplicate_request"
    /\ HasPending(last.user, last.id)

\* C4: no user ever holds two Borrowed rows for the same book, and a borrow
\* request by a user who holds a Borrowed row for the book creates no request.
OneBorrowPerPair ==
    \A r1, r2 \in DOMAIN borrowed_books :
        (/\ borrowed_books[r1].status = "Borrowed"
         /\ borrowed_books[r2].status = "Borrowed"
         /\ borrowed_books[r1].user_id = borrowed_books[r2].user_id
         /\ borrowed_books[r1].book_id = borrowed_books[r2].book_id)
        => r1 = r2

Holds(u, b) ==
    \E r \in DOMAIN borrowed_books :
        /\ borrowed_books[r].status = "Borrowed"
        /\ borrowed_books[r].user_id = u
        /\ borrowed_books[r].book_id = b

C4_OneBorrowedRecord ==
    /\ []OneBorrowPerPair
    /\ [][(last'.op = "borrow_book" /\ Holds(last'.user, last'.id))
          => /\ borrow_requests' = borrow_requests
             /\ last'.result # "ok"]_vars

\* The holder asks again for a book that an edit put back on the shelves.
C4_HolderRefused ==
    /\ last.op = "borrow_book"
    /\ last.result = "already_borrowed"
    /\ Holds(last.user, last.id)

\* C5: in every state, a book's is_available is true exactly when its
\* book_status is Available or On Shelves.
C5_AvailabilityMirrorsStatus ==
    \A b \in DOMAIN books : books[b].is_available <=> books[b].book_status \in OnShelf

\* A handler has just written a book, and the table holds a book on the
\* shelves next to one that is out or sold.
C5_MixedShelf ==
    /\ last.op \in {"add_book", "edit_book", "donate_book", "approve_borrow_request",
                    "return_book", "purchase_book"}
    /\ last.result = "ok"
    /\ \E b1, b2 \in DOMAIN books :
          /\ books[b1].book_status = "On Shelves" /\ books[b1].is_available
          /\ books[b2].book_status \in {"Borrowed", "Sold"} /\ ~books[b2].is_available

\* C6: once a book's status is Sold it stays Sold for as long as the book
\* exists.
C6_SoldIsTerminal ==
    [][\A b \in DOMAIN books :
        (books[b].book_status = "Sold" /\ b \in DOMAIN books')
        => books'[b].book_status = "Sold"]_vars

\* C7: no single operation changes a book's status from Borrowed to Sold or
\* from Sold to Borrowed.
C7_NoDirectBorrowedSold ==
    [][\A b \in DOMAIN books :
        b \in DOMAIN books'
        => /\ ~(books[b].book_status = "Borrowed" /\ books'[b].book_status = "Sold")
           /\ ~(books[b].book_status = "Sold" /\ books'[b].book_status = "Borrowed")]_vars

\* C8: purchasing a book with price > 0 that is Available or On Shelves either
\* adds exactly one Completed order of the caller for the book's price and
\* exactly one order item of that order and book at that price and makes the
\* book Sold and unavailable, or (a write failed) leaves orders, order_items
\* and books as they were.
C8_PurchaseAllOrNothing ==
    [][\A u \in UserIds, b \in BookIds :
        (/\ last'.op = "purchase_book" /\ last'.user = u /\ last'.id = b
         /\ b \in DOMAIN books
         /\ books[b].price > 0
         /\ books[b].book_status \in OnShelf)
        => \/ /\ last'.result = "ok"
              /\ Cardinality(Added(orders, orders')) = 1
              /\ Cardinality(Added(order_items, order_items')) = 1
              /\ \A o \in Added(orders, orders'), i \in Added(order_items, order_items') :
                    /\ orders'[o].user_id = u
                    /\ orders'[o].status = "Completed"
                    /\ orders'[o].total_amount = books[b].price
                    /\ order_items'[i].order_id = o
                    /\ order_items'[i].book_id = b
                    /\ order_items'[i].price_at_purchase = books[b].price
              /\ KeptRows(orders, orders')
              /\ KeptRows(order_items, order_items')
              /\ books'[b].book_status = "Sold"
              /\ ~books'[b].is_available
           \/ /\ last'.result = "storage_error"
              /\ orders' = orders
              /\ order_items' = order_items
              /\ books' = books]_vars

C8_Purchased ==
    /\ last.op = "purchase_book"
    /\ last.result = "ok"
    /\ books[last.id].book_status = "Sold"
    /\ \E i \in DOMAIN order_items :
          /\ order_items[i].book_id = last.id
          /\ order_items[i].order_id \in DOMAIN orders
          /\ orders[order_items[i].order_id].user_id = last.user

\* C9: purchasing a book whose price is 0 fails whatever the book's status:
\* no order, no order item, and the books table as it was.
C9_FreeBookNotSold ==
    [][(/\ last'.op = "purchase_book"
        /\ last'.id \in DOMAIN books
        /\ books[last'.id].price = 0)
       => /\ last'.result = "not_available"
          /\ orders' = orders
          /\ order_items' = order_items
          /\ books' = books]_vars

C9_FreeBookRefused ==
    /\ last.op = "purchase_book"
    /\ last.result = "not_available"
    /\ last.id \in DOMAIN books
    /\ books[last.id].price = 0
    /\ books[last.id].book_status \in OnShelf

\* C10: a return succeeds only on a Borrowed record of the calling user; on
\* success the record is Returned with a return date and its book is On
\* Shelves and available; any other call, and a failed write, changes neither
\* borrowed_books nor books.
C10_ReturnOwnBorrow ==
    [][\A u \in UserIds, r \in BorrowIds :
        (last'.op = "return_book" /\ last'.user = u /\ last'.id = r)
        => LET own == /\ r \in DOMAIN borrowed_books
                      /\ borrowed_books[r].user_id = u
                      /\ borrowed_books[r].status = "Borrowed"
           IN /\ ~own => last'.result = "not_found"
              /\ IF last'.result = "ok"
                 THEN /\ own
                      /\ borrowed_books'[r].status = "Returned"
                      /\ borrowed_books'[r].return_date # NULL
                      /\ borrowed_books[r].book_id \in DOMAIN books'
                      /\ books'[borrowed_books[r].book_id].book_status = "On Shelves"
                      /\ books'[borrowed_books[r].book_id].is_available
                 ELSE borrowed_books' = borrowed_books /\ books' = books]_vars

C10_Returned ==
    /\ last.op = "return_book"
    /\ last.result = "ok"
    /\ borrowed_books[last.id].status = "Returned"
    /\ borrowed_books[last.id].user_id = last.user
    /\ books[borrowed_books[last.id].book_id].book_status = "On Shelves"

\* C11: when an Approved request of another user exists for a book that is
\* still Borrowed, approving a Pending request for that book fails: the request
\* is never Approved (it becomes Rejected unless the store fails), no
\* borrowed_books row appears and the other request stays Approved.  A request
\* becomes Approved only in a step that takes its book from the shelves to
\* Borrowed, so two approvals for one book never fall in one Borrowed period.
ApprovedRival(r) ==
    {r2 \in DOMAIN borrow_requests :
        /\ r2 # r
        /\ borrow_requests[r2].status = "Approved"
        /\ BookOf(r2) = BookOf(r)
        /\ UserOf(r2) # UserOf(r)}

C11_SecondApprovalRejected ==
    /\ [][\A r \in RequestIds :
            (Approving(r) /\ IsPending(r) /\ BookOf(r) \in DOMAIN books
                /\ books[BookOf(r)].book_status = "Borrowed"
                /\ ApprovedRival(r) # {})
            => /\ last'.result \in {"book_unavailable", "storage_error"}
               /\ last'.result = "book_unavailable" => borrow_requests'[r].status = "Rejected"
               /\ borrow_requests'[r].status # "Approved"
               /\ \A r2 \in ApprovedRival(r) : borrow_requests'[r2] = borrow_requests[r2]
               /\ borrowed_books' = borrowed_books
               /\ books' = books]_vars
    /\ [][\A r \in DOMAIN borrow_requests \cap DOMAIN borrow_requests' :
            (borrow_requests[r].status # "Approved" /\ borrow_requests'[r].status = "Approved")
            => /\ BookOf(r) \in DOMAIN books
               /\ books[BookOf(r)].book_status \in OnShelf
               /\ books'[BookOf(r)].book_status = "Borrowed"]_vars

C11_SecondRejected ==
    /\ last.op = "approve_borrow_request"
    /\ last.result = "book_unavailable"
    /\ borrow_requests[last.id].status = "Rejected"
    /\ books[BookOf(last.id)].book_status = "Borrowed"
    /\ ApprovedRival(last.id) # {}

\* C12: a borrow request is created only for a book that exists, has price 0
\* and is Available or On Shelves; for any other book the call fails as not
\* available and inserts nothing; a successful call inserts exactly one row,
\* Pending, for the calling user and that book, and every other call inserts
\* none.
C12_BorrowRequestPreconditions ==
    [][\A u \in UserIds, b \in BookIds :
        (last'.op = "borrow_book" /\ last'.user = u /\ last'.id = b)
        => LET borrowable == /\ b \in DOMAIN books
                             /\ books[b].price = 0
                             /\ books[b].book_status \in OnShelf
           IN /\ ~borrowable => last'.result = "not_available"
              /\ IF last'.result = "ok"
                 THEN /\ borrowable
                      /\ Cardinality(Added(borrow_requests, borrow_requests')) = 1
                      /\ \A n \in Added(borrow_requests, borrow_requests') :
                            borrow_requests'[n] =
                                [user_id |-> u, book_id |-> b, status |-> "Pending"]
                      /\ KeptRows(borrow_requests, borrow_requests')
                 ELSE borrow_requests' = borrow_requests]_vars

\* A request was just created for a free book.
C12_Requested ==
    /\ last.op = "borrow_book"
    /\ last.result = "ok"
    /\ HasPending(last.user, last.id)
    /\ books[last.id].price = 0

\* C13: a borrow request and a rejection, successful or not, leave the books
\* table (so every book_status and is_available) and the borrowed_books table
\* exactly as they were.
C13_RequestsLeaveBooksAlone ==
    [][last'.op \in {"borrow_book", "reject_borrow_request"}
       => books' = books /\ borrowed_books' = borrowed_books]_vars

\* A Pending request for a book was just rejected while the book is on loan.
C13_RejectedWhileBorrowed ==
    /\ last.op = "reject_borrow_request"
    /\ last.result = "ok"
    /\ borrow_requests[last.id].status = "Rejected"
    /\ books[BookOf(last.id)].book_status = "Borrowed"
    /\ \E r \in DOMAIN borrowed_books : borrowed_books[r].status = "Borrowed"

\* C14: an approval or a rejection of a request that is not Pending (Approved,
\* Rejected or absent) fails and changes no table; and a request's status
\* changes only from Pending, only to Approved or Rejected, and only by an
\* approval or rejection of that request: an Approved or Rejected request
\* keeps its status.
Deciding(r) ==
    /\ last'.op \in {"approve_borrow_request", "reject_borrow_request"}
    /\ last'.id = r

C14_OnlyPendingIsDecided ==
    /\ [][\A r \in RequestIds :
            (Deciding(r) /\ ~IsPending(r))
            => /\ last'.result = "not_found"
               /\ UNCHANGED <<users, books, borrow_requests, borrowed_books,
                              orders, order_items, payments>>]_vars
    /\ [][\A r \in DOMAIN borrow_requests \cap DOMAIN borrow_requests' :
            borrow_requests'[r].status # borrow_requests[r].status
            => /\ borrow_requests[r].status = "Pending"
               /\ borrow_requests'[r].status \in {"Approved", "Rejected"}
               /\ Deciding(r)]_vars

\* An approval or rejection was just refused on a request already decided.
C14_DecidedRefused ==
    /\ last.op \in {"approve_borrow_request", "reject_borrow_request"}
    /\ last.result = "not_found"
    /\ last.id \in DOMAIN borrow_requests
    /\ borrow_requests[last.id].status \in {"Approved", "Rejected"}

\* C15: in every state, every orders row has at least one order_items row
\* that references it.
C15_OrderHasItem ==
    \A o \in DOMAIN orders : \E i \in DOMAIN order_items : order_items[i].order_id = o

\* C16: an order item's price_at_purchase and an order's total_amount never
\* change while the row exists, whatever operation runs (an edit of the book's
\* price included); so an item's price stays the total of its order, the price
\* both were given at purchase.
C16_PurchasePriceIsFrozen ==
    /\ [][/\ \A i \in DOMAIN order_items \cap DOMAIN order_items' :
               order_items'[i].price_at_purchase = order_items[i].price_at_purchase
          /\ \A o \in DOMAIN orders \cap DOMAIN orders' :
               orders'[o].total_amount = orders[o].total_amount]_vars
    /\ [](\A i \in DOMAIN order_items :
             order_items[i].order_id \in DOMAIN orders
             => order_items[i].price_at_purchase = orders[order_items[i].order_id].total_amount)

\* An edit has just changed the price of a book that was bought.
C16_PriceEditedAfterSale ==
    /\ last.op = "edit_book"
    /\ last.result = "ok"
    /\ \E i \in DOMAIN order_items :
          /\ order_items[i].book_id = last.id
          /\ order_items[i].price_at_purchase # books[last.id].price
          /\ orders[order_items[i].order_id].total_amount # books[last.id].price

\* C17: a delete_book call either succeeds, and then the book row is gone, no
\* borrowed_books, borrow_requests or order_items row references the book and
\* the rows of other books are as they were; or a statement fails, and then
\* books, borrowed_books, borrow_requests and order_items are exactly as before.
RowsOfOthers(old, new, b) ==
    /\ DOMAIN new = {i \in DOMAIN old : old[i].book_id # b}
    /\ \A i \in DOMAIN new : new[i] = old[i]

C17_DeleteBookCascades ==
    [][\A b \in BookIds :
        (last'.op = "delete_book" /\ last'.id = b)
        => \/ /\ last'.result = "ok"
              /\ DOMAIN books' = DOMAIN books \ {b}
              /\ \A i \in DOMAIN books' : books'[i] = books[i]
              /\ RowsOfOthers(borrowed_books, borrowed_books', b)
              /\ RowsOfOthers(borrow_requests, borrow_requests', b)
              /\ RowsOfOthers(order_items, order_items', b)
           \/ /\ last'.result = "storage_error"
              /\ UNCHANGED <<books, borrowed_books, borrow_requests, order_items>>]_vars

\* A book that had been lent and had a second request was just deleted, and
\* its rows went with it.
C17_LentBookDeleted ==
    /\ last.op = "delete_book"
    /\ last.result = "ok"
    /\ last.id \notin DOMAIN books
    /\ seq["borrowed_books"] > 0 /\ DOMAIN borrowed_books = {}
    /\ seq["borrow_requests"] > 1 /\ DOMAIN borrow_requests = {}

\* C18 (as stated): deleting a user whose is_admin is set fails as a protected
\* account for every caller, that admin included, and deletes nothing.
DeletingUser(a, u) == last'.op = "delete_user" /\ last'.user = a /\ last'.id = u
NoTableChanges ==
    UNCHANGED <<users, books, borrow_requests, borrowed_books, orders,
                order_items, payments>>

C18_AdminAlwaysProtectedError ==
    [][\A a, u \in UserIds :
        (DeletingUser(a, u) /\ u \in DOMAIN users /\ users[u].is_admin)
        => last'.result = "protected" /\ NoTableChanges]_vars

\* C18 (amended): deleting a user whose is_admin is set always fails and
\* deletes nothing: as a self-delete when the caller is that admin, as a
\* protected account for any other caller; a librarian target fails as a
\* protected account; and no user with is_admin or is_librarian set is ever
\* removed from the users table.
C18_StaffNeverDeleted ==
    /\ [][\A a, u \in UserIds :
            (DeletingUser(a, u) /\ u \in DOMAIN users
                /\ (users[u].is_admin \/ users[u].is_librarian))
            => /\ last'.result = (IF a = u THEN "self_delete" ELSE "protected")
               /\ NoTableChanges]_vars
    /\ [][\A u \in DOMAIN users :
            (users[u].is_admin \/ users[u].is_librarian)
            => u \in DOMAIN users' /\ users'[u] = users[u]]_vars

\* The admin has just tried to delete the admin account.
C18_AdminDeletesSelf ==
    /\ last.op = "delete_user"
    /\ last.user = last.id
    /\ last.result = "self_delete"
    /\ users[last.id].is_admin

\* C19: deleting an ordinary user (neither admin nor librarian, not the
\* caller) either succeeds, and then the user row is gone, no borrowed_books,
\* payments, borrow_requests or orders row references the user, no order_items
\* row references one of the user's orders, and all other rows are as they
\* were; or a statement fails, and then every table is exactly as before.
RowsOfOtherUsers(old, new, u) ==
    /\ DOMAIN new = {i \in DOMAIN old : old[i].user_id # u}
    /\ \A i \in DOMAIN new : new[i] = old[i]

C19_DeleteUserCascades ==
    [][\A a, u \in UserIds :
        (/\ DeletingUser(a, u) /\ a # u /\ u \in DOMAIN users
         /\ ~users[u].is_admin /\ ~users[u].is_librarian)
        => \/ /\ last'.result = "ok"
              /\ DOMAIN users' = DOMAIN users \ {u}
              /\ \A i \in DOMAIN users' : users'[i] = users[i]
              /\ RowsOfOtherUsers(borrowed_books, borrowed_books', u)
              /\ RowsOfOtherUsers(payments, payments', u)
              /\ RowsOfOtherUsers(borrow_requests, borrow_requests', u)
              /\ RowsOfOtherUsers(orders, orders', u)
              /\ DOMAIN order_items' =
                    {i \in DOMAIN order_items :
                        ~(/\ order_items[i].order_id \in DOMAIN orders
                          /\ orders[order_items[i].order_id].user_id = u)}
              /\ \A i \in DOMAIN order_items' : order_items'[i] = order_items[i]
           \/ /\ last'.result = "storage_error"
              /\ NoTableChanges]_vars

\* A registered reader who had bought a book was just deleted, and the order
\* and its item went with the account.
C19_BuyerDeleted ==
    /\ last.op = "delete_user"
    /\ last.result = "ok"
    /\ last.id \notin DOMAIN users
    /\ seq["users"] >= last.id
    /\ seq["orders"] > 0 /\ DOMAIN orders = {}
    /\ seq["order_items"] > 0 /\ DOMAIN order_items = {}

\* C20: a login that fetches a user whose is_approved is false fails as not
\* approved, whether or not the password is right; a login succeeds only for an
\* approved user, and for an approved user the right password succeeds; and a
\* user is approved only by init_db or by approve_user applied to that user (a
\* registration creates the user unapproved).
C20_LoginNeedsApproval ==
    /\ [][(last'.op = "login" /\ last'.user \in DOMAIN users)
          => LET row == users[last'.user]
             IN /\ ~row.is_approved => last'.result = "not_approved"
                /\ last'.result = "ok" => row.is_approved
                /\ (row.is_approved /\ row.password = GeneratePasswordHash(last'.password))
                   => last'.result = "ok"]_vars
    /\ [][\A u \in DOMAIN users' :
            (users'[u].is_approved /\ (u \notin DOMAIN users \/ ~users[u].is_approved))
            => /\ u \in DOMAIN users
               /\ last'.op = "approve_user"
               /\ last'.id = u]_vars

\* A self-registered user, approved since, has just logged in.
C20_ReaderLoggedIn ==
    /\ last.op = "login"
    /\ last.result = "ok"
    /\ last.user \in DOMAIN users
    /\ ~users[last.user].is_admin /\ ~users[last.user].is_librarian
    /\ users[last.user].username = "reader"

\* C21: in every state no two users share a username and no two share an
\* email; a registration whose username or email is already taken adds no
\* user, and fails as a duplicate when the form is otherwise valid; a
\* successful registration adds exactly one user, with is_approved, is_admin
\* and is_librarian all false.
UniqueNamesAndEmails ==
    \A u1, u2 \in DOMAIN users :
        u1 # u2 => /\ users[u1].username # users[u2].username
                   /\ users[u1].email # users[u2].email

C21_UniqueUsers ==
    /\ []UniqueNamesAndEmails
    /\ [][\A f \in RegisterForms :
            Register(f)
            => LET taken == \E u \in DOMAIN users :
                                users[u].username = f.username \/ users[u].email = f.email
                   valid == /\ f.username # "" /\ f.email # "" /\ f.password # ""
                            /\ f.confirm_password = f.password
               IN /\ taken => users' = users /\ last'.result # "ok"
                  /\ (taken /\ valid) => last'.result = "duplicate"
                  /\ IF last'.result = "ok"
                     THEN /\ Cardinality(Added(users, users')) = 1
                          /\ \A n \in Added(users, users') :
                                /\ users'[n].username = f.username
                                /\ users'[n].email = f.email
                                /\ ~users'[n].is_approved
                                /\ ~users'[n].is_admin
                                /\ ~users'[n].is_librarian
                          /\ KeptRows(users, users')
                     ELSE users' = users]_vars

\* A registration was just refused as a duplicate of a self-registered user.
C21_DuplicateRefused ==
    /\ last.op = "register"
    /\ last.result = "duplicate"
    /\ \E u \in DOMAIN users : ~users[u].is_admin /\ ~users[u].is_librarian

\* C22: the borrow page lists exactly the books with price 0 that are
\* Available or On Shelves, the sale page exactly the books with price > 0
\* that are Available or On Shelves; in every state the two lists are disjoint
\* and hold no Borrowed or Sold book.
C22_CatalogFilters ==
    /\ [][/\ last'.op = "books"
             => last'.books_list =
                   {b \in DOMAIN books :
                       books[b].price = 0 /\ books[b].book_status \in OnShelf}
          /\ last'.op = "books_for_sale"
             => last'.books_list =
                   {b \in DOMAIN books :
                       books[b].price > 0 /\ books[b].book_status \in OnShelf}]_vars
    /\ [](/\ BorrowCatalog(Store) \cap SaleCatalog(Store) = {}
          /\ \A b \in BorrowCatalog(Store) \cup SaleCatalog(Store) :
                books[b].book_status \notin {"Borrowed", "Sold"})

\* The sale page was just listed, over a table that also holds a free book
\* and a priced book that is Borrowed or Sold.
C22_SaleListed ==
    /\ last.op = "books_for_sale"
    /\ last.books_list # {}
    /\ \E b \in DOMAIN books : books[b].price = 0 /\ books[b].book_status \in OnShelf
    /\ \E b \in DOMAIN books :
          books[b].price > 0 /\ books[b].book_status \in {"Borrowed", "Sold"}

\* C23: add_book and edit_book with a missing field, a price that is not a
\* number or a negative price fail with a validation message and leave the
\* books table as it was; edit_book on an absent id fails as not found and
\* changes nothing; and in every state every book's price is >= 0.
BadBookForm(f) ==
    \/ ~f.text_ok \/ f.price = "" \/ f.book_status = ""
    \/ f.price \in {"abc", "-1"}

ValidationErrors == {"fields_required", "invalid_price", "negative_price"}

C23_BookValidation ==
    /\ [](\A b \in DOMAIN books : books[b].price >= 0)
    /\ [][/\ last'.op = "add_book"
             => \A f \in BookForms :
                   (BadBookForm(f) /\ AddBook(f))
                   => last'.result \in ValidationErrors /\ books' = books
          /\ last'.op = "edit_book"
             => \A f \in BookForms :
                   LET b == last'.id
                   IN /\ (b \notin DOMAIN books /\ EditBook(b, f))
                         => last'.result = "not_found" /\ books' = books
                      /\ (b \in DOMAIN books /\ BadBookForm(f) /\ EditBook(b, f))
                         => last'.result \in ValidationErrors /\ books' = books]_vars

\* An edit of an existing book was just refused for its negative price.
C23_NegativePriceRefused ==
    /\ last.op = "edit_book"
    /\ last.result = "negative_price"
    /\ last.id \in DOMAIN books

\* C24: however purchase_book calls on one book interleave, at most one of
\* them creates an order item for the book (no handler here edits the book, so
\* the book is sold at most once).
C24_SoldAtMostOnce ==
    \A b \in BookIds :
        Cardinality({i \in DOMAIN order_items : order_items[i].book_id = b}) <= 1

\* C25: however approve_borrow_request calls on one Pending request
\* interleave, one approval creates one Borrowed row: there are never more
\* Borrowed rows than Approved requests.
C25_OneRowPerApprovedRequest ==
    Cardinality({r \in DOMAIN borrowed_books : borrowed_books[r].status = "Borrowed"})
        <= Cardinality({r \in DOMAIN borrow_requests :
                            borrow_requests[r].status = "Approved"})

\* C26: once a handler call has returned, the connection it opened is closed:
\* the only connections open are those of calls still running.
C26_NoConnectionLeftOpen == connections = Cardinality(inflight)

\* C27: in every state each book has at most one borrowed_books row with
\* status Borrowed, whoever the borrowers are.
C27_OneLoanPerBook ==
    \A b \in BookIds :
        Cardinality({r \in DOMAIN borrowed_books :
                        /\ borrowed_books[r].book_id = b
                        /\ borrowed_books[r].status = "Borrowed"}) <= 1

\* C28: in every state every borrowed_books row with status Borrowed refers to
\* a book whose book_status is Borrowed.
C28_LoanMatchesBookStatus ==
    \A r \in DOMAIN borrowed_books :
        borrowed_books[r].status = "Borrowed"
        => /\ borrowed_books[r].book_id \in DOMAIN books
           /\ books[borrowed_books[r].book_id].book_status = "Borrowed"

\* C29: in every state every book whose book_status is Borrowed has a
\* borrowed_books row with status Borrowed that belongs to an existing user
\* (who can return it).
C29_BorrowedBookHasBorrower ==
    \A b \in DOMAIN books :
        books[b].book_status = "Borrowed"
        => \E r \in DOMAIN borrowed_books :
              /\ borrowed_books[r].book_id = b
              /\ borrowed_books[r].status = "Borrowed"
              /\ borrowed_books[r].user_id \in DOMAIN users

\* C30: with every handler call one atomic step, in every state every
\* borrow_requests and borrowed_books row refers to an existing user and an
\* existing book, every order_items row to an existing order and an existing
\* book, and every orders row to an existing user.
C30_NoDanglingReference ==
    /\ \A r \in DOMAIN borrow_requests :
          /\ borrow_requests[r].user_id \in DOMAIN users
          /\ borrow_requests[r].book_id \in DOMAIN books
    /\ \A r \in DOMAIN borrowed_books :
          /\ borrowed_books[r].user_id \in DOMAIN users
          /\ borrowed_books[r].book_id \in DOMAIN books
    /\ \A i \in DOMAIN order_items :
          /\ order_items[i].order_id \in DOMAIN orders
          /\ order_items[i].book_id \in DOMAIN books
    /\ \A o \in DOMAIN orders : orders[o].user_id \in DOMAIN users

\* A registered reader who had bought a book was just deleted, and the order
\* went with the account.
C30_BuyerGoneOrdersLeft ==
    /\ last.op = "delete_user"
    /\ last.result = "ok"
    /\ last.id \notin DOMAIN users
    /\ seq["orders"] > Cardinality(DOMAIN orders)

\* C31: whenever an approved user logs in with their own username or their own
\* email and their correct password, the login succeeds and opens the session
\* of that user, never of another user and never failing, whatever other
\* users have registered.
C31_OwnIdentifierLogsIn ==
    [][last'.op = "login"
       => \A u \in DOMAIN users :
             (/\ users[u].is_approved
              /\ CheckPasswordHash(users[u].password, last'.password)
              /\ \E i \in {users[u].username, users[u].email} :
                    Login(i, last'.password))
             => last'.result = "ok" /\ last'.user = u]_vars

====
